---- MODULE Spec2Model ----
(***************************************************************************)
(* A model of fileParser.py: the FileParser class that drains a queue of   *)
(* file names with one thread per file, normalises every csv file into a   *)
(* column store, merges the stores into the shared self.data_list and      *)
(* writes the unified csv.                                                 *)
(*                                                                         *)
(* Strings are sequences of one-character strings, so that formatting      *)
(* ('{}.{}'.format), strptime and strftime are computed, not assumed.      *)
(* A column store (a Python dict of lists) is a record                     *)
(*   [keys |-> the keys in insertion order, vals |-> key -> list].         *)
(***************************************************************************)
EXTENDS Integers, Sequences, FiniteSets, TLC

(***************************************************************************)
(* Bounds of the model.                                                    *)
(***************************************************************************)
MaxRows == 2
MaxVariants == 4
MaxFiles == 2
MaxMerges == 3

(***************************************************************************)
(* Column stores: dict / defaultdict(list).                                *)
(***************************************************************************)
EmptyStore == [keys |-> <<>>, vals |-> [k \in {} |-> <<>>]]

Has(c, k) == k \in DOMAIN c.vals

\* bool(columns.get(k, None)): the key is there and its list is not empty
Truthy(c, k) == Has(c, k) /\ Len(c.vals[k]) > 0

\* columns[k] = v: a new key goes to the end of the insertion order
SetItem(c, k, v) ==
    [keys |-> IF Has(c, k) THEN c.keys ELSE Append(c.keys, k),
     vals |-> [x \in DOMAIN c.vals \cup {k} |-> IF x = k THEN v ELSE c.vals[x]]]

\* del columns[k]
DelItem(c, k) ==
    [keys |-> SelectSeq(c.keys, LAMBDA x : x # k),
     vals |-> [x \in DOMAIN c.vals \ {k} |-> c.vals[x]]]

\* columns[k] of a defaultdict(list): a missing key is created with []
Touch(c, k) == IF Has(c, k) THEN c ELSE SetItem(c, k, <<>>)

\* bool(self.data_list): a dict is true when it has a key
NonEmpty(c) == Len(c.keys) > 0

(***************************************************************************)
(* Characters and numbers.                                                 *)
(***************************************************************************)
DigitVal ==
    "0" :> 0 @@ "1" :> 1 @@ "2" :> 2 @@ "3" :> 3 @@ "4" :> 4 @@
    "5" :> 5 @@ "6" :> 6 @@ "7" :> 7 @@ "8" :> 8 @@ "9" :> 9

DigitChar == <<"0", "1", "2", "3", "4", "5", "6", "7", "8", "9">>

IsDigit(ch) == ch \in DOMAIN DigitVal

IsSpace(ch) == ch \in {" ", "\t"}

\* str.lower() on the letters the month names use
UpperToLower ==
    "J" :> "j" @@ "F" :> "f" @@ "M" :> "m" @@ "A" :> "a" @@ "S" :> "s" @@
    "O" :> "o" @@ "N" :> "n" @@ "D" :> "d" @@ "E" :> "e" @@ "B" :> "b" @@
    "R" :> "r" @@ "P" :> "p" @@ "Y" :> "y" @@ "U" :> "u" @@ "L" :> "l" @@
    "G" :> "g" @@ "C" :> "c" @@ "T" :> "t" @@ "V" :> "v"

Lower(ch) == IF ch \in DOMAIN UpperToLower THEN UpperToLower[ch] ELSE ch

\* int(s) of a matched group: digits, after an optional leading blank
RECURSIVE ToInt(_)
ToInt(s) ==
    IF s = <<>> THEN 0
    ELSE IF IsSpace(s[1]) THEN ToInt(Tail(s))
    ELSE ToInt(SubSeq(s, 1, Len(s) - 1)) * 10 + DigitVal[s[Len(s)]]

\* the decimal digits of n >= 0
RECURSIVE ToDigits(_)
ToDigits(n) ==
    IF n < 10 THEN <<DigitChar[n + 1]>>
    ELSE Append(ToDigits(n \div 10), DigitChar[(n % 10) + 1])

\* '%02d'
Pad2(n) == IF n < 10 THEN <<"0">> \o ToDigits(n) ELSE ToDigits(n)

(***************************************************************************)
(* datetime.strptime(row, fmt), as _strptime computes it: the format is    *)
(* turned into a regular expression (a blank becomes \s+, a directive a    *)
(* named group), re.match finds the first match in the order of the        *)
(* alternatives, text left after the match is a ValueError, and so is a    *)
(* day the month does not have.  A format is the sequence of its           *)
(* directives and literal characters.                                      *)
(***************************************************************************)
MonthNum ==
    <<"j", "a", "n">> :> 1 @@ <<"f", "e", "b">> :> 2 @@ <<"m", "a", "r">> :> 3 @@
    <<"a", "p", "r">> :> 4 @@ <<"m", "a", "y">> :> 5 @@ <<"j", "u", "n">> :> 6 @@
    <<"j", "u", "l">> :> 7 @@ <<"a", "u", "g">> :> 8 @@ <<"s", "e", "p">> :> 9 @@
    <<"o", "c", "t">> :> 10 @@ <<"n", "o", "v">> :> 11 @@ <<"d", "e", "c">> :> 12

LowerStr(s) == [i \in 1..Len(s) |-> Lower(s[i])]

\* s[i] when there is such a character, else a character nothing matches
At(s, i) == IF i >= 1 /\ i <= Len(s) THEN s[i] ELSE "$"

\* the length of the run of white space of s from i
RECURSIVE SpaceRun(_, _)
SpaceRun(s, i) == IF IsSpace(At(s, i)) THEN 1 + SpaceRun(s, i + 1) ELSE 0

\* the lengths k, k-1, ..., 1: \s+ is greedy and gives back
RECURSIVE DownFrom(_)
DownFrom(k) == IF k <= 0 THEN <<>> ELSE <<k>> \o DownFrom(k - 1)

OneIf(cond, len) == IF cond THEN <<len>> ELSE <<>>

\* The lengths of the text one element of the regular expression can match
\* at s[i], in the order re tries them.
\*   %d  3[0-1]|[1-2]\d|0[1-9]|[1-9]| [1-9]
\*   %m  1[0-2]|0[1-9]|[1-9]
\*   %Y  \d\d\d\d
\*   %b  jan|feb|...|dec, ignoring case
Cands(el, s, i) ==
    LET a == At(s, i)
        b == At(s, i + 1)
    IN  CASE el = "%d" ->
               OneIf(a = "3" /\ b \in {"0", "1"}, 2)
               \o OneIf(a \in {"1", "2"} /\ IsDigit(b), 2)
               \o OneIf(a = "0" /\ IsDigit(b) /\ b # "0", 2)
               \o OneIf(IsDigit(a) /\ a # "0", 1)
               \o OneIf(a = " " /\ IsDigit(b) /\ b # "0", 2)
          [] el = "%m" ->
               OneIf(a = "1" /\ b \in {"0", "1", "2"}, 2)
               \o OneIf(a = "0" /\ IsDigit(b) /\ b # "0", 2)
               \o OneIf(IsDigit(a) /\ a # "0", 1)
          [] el = "%Y" ->
               OneIf(IsDigit(a) /\ IsDigit(b) /\ IsDigit(At(s, i + 2))
                     /\ IsDigit(At(s, i + 3)), 4)
          [] el = "%b" ->
               OneIf(i + 2 <= Len(s)
                     /\ LowerStr(SubSeq(s, i, i + 2)) \in DOMAIN MonthNum, 3)
          [] el = " " -> DownFrom(SpaceRun(s, i))
          [] OTHER -> OneIf(a = el, 1)

NoMatch == [ok |-> FALSE, end |-> 0, grp |-> [x \in {} |-> <<>>]]

\* re.match of the elements fmt[j..] at s[i..]: the first match in re's order
RECURSIVE Match(_, _, _, _)
RECURSIVE TryCands(_, _, _, _, _, _)
Match(fmt, j, s, i) ==
    IF j > Len(fmt)
    THEN [ok |-> TRUE, end |-> i - 1, grp |-> [x \in {} |-> <<>>]]
    ELSE TryCands(fmt, j, s, i, Cands(fmt[j], s, i), 1)

TryCands(fmt, j, s, i, cands, n) ==
    IF n > Len(cands) THEN NoMatch
    ELSE LET rest == Match(fmt, j + 1, s, i + cands[n])
         IN  IF rest.ok
             THEN [ok |-> TRUE, end |-> rest.end,
                   grp |-> (fmt[j] :> SubSeq(s, i, i + cands[n] - 1)) @@ rest.grp]
             ELSE TryCands(fmt, j, s, i, cands, n + 1)

IsLeap(y) == (y % 4 = 0 /\ y % 100 # 0) \/ y % 400 = 0

DaysIn(m, y) ==
    IF m = 2 THEN (IF IsLeap(y) THEN 29 ELSE 28)
    ELSE IF m \in {4, 6, 9, 11} THEN 30 ELSE 31

ValueError == [ok |-> FALSE, year |-> 0, month |-> 0, day |-> 0]

Strptime(s, fmt) ==
    LET r == Match(fmt, 1, s, 1)
    IN  IF ~r.ok \/ r.end # Len(s) THEN ValueError
        ELSE LET year == ToInt(r.grp["%Y"])
                 month == IF "%m" \in DOMAIN r.grp
                          THEN ToInt(r.grp["%m"])
                          ELSE MonthNum[LowerStr(r.grp["%b"])]
                 day == ToInt(r.grp["%d"])
             IN  IF year < 1 \/ day > DaysIn(month, year) THEN ValueError
                 ELSE [ok |-> TRUE, year |-> year, month |-> month, day |-> day]

\* date_obj.strftime('%d-%m-%Y'): %d and %m have two digits, %Y is the year
\* as the C library prints it, without leading zeros (glibc)
Strftime(d) == Pad2(d.day) \o <<"-">> \o Pad2(d.month) \o <<"-">> \o ToDigits(d.year)

\* a format list in which one format stands twice
DateFormatsRepeated ==
    << <<"%b", " ", "%d", " ", "%Y">>,
       <<"%d", " ", "%b", " ", "%Y">>,
       <<"%d", "-", "%m", "-", "%Y">>,
       <<"%d", "-", "%m", "-", "%Y">> >>

\* ('%b %d %Y', '%d %b %Y', '%d-%m-%Y')
DateFormats ==
    << <<"%b", " ", "%d", " ", "%Y">>,
       <<"%d", " ", "%b", " ", "%Y">>,
       <<"%d", "-", "%m", "-", "%Y">> >>

\* the inner loop over the formats: every format that parses the row appends
RECURSIVE TryFormats(_, _)
TryFormats(row, k) ==
    IF k > Len(DateFormats) THEN <<>>
    ELSE LET d == Strptime(row, DateFormats[k])
         IN  (IF d.ok THEN <<Strftime(d)>> ELSE <<>>) \o TryFormats(row, k + 1)

\* the outer loop over the rows of columns['date']
RECURSIVE DateList(_)
DateList(rows) ==
    IF rows = <<>> THEN <<>>
    ELSE TryFormats(Head(rows), 1) \o DateList(Tail(rows))

\* a date pass that leaves a store without a 'date' column as it is
CanonDatesIfPresent(c) ==
    IF Has(c, "date") THEN SetItem(c, "date", DateList(c.vals["date"])) ELSE c

\* change the rows in column 'date' into the unified date format; reading
\* columns['date'] creates the key when the file has no such column
CanonDates(c) == SetItem(Touch(c, "date"), "date", DateList(Touch(c, "date").vals["date"]))

(***************************************************************************)
(* The rename rules of csv_parser, in the order of the code.               *)
(***************************************************************************)
\* the two arguments of format() swapped
CentsEuro(k, y) == y \o <<".">> \o k

\* '{}.{}'.format(k, y)
EuroCents(k, y) == k \o <<".">> \o y

Min(a, b) == IF a <= b THEN a ELSE b

\* [... for k, y in zip(euro, cents)]
ZipEuroCents(euro, cents) ==
    [i \in 1..Min(Len(euro), Len(cents)) |-> EuroCents(euro[i], cents[i])]

\* the assignment without the del
MoveKeyCopy(c, from, to) == SetItem(c, to, c.vals[from])

\* columns[to] = columns.get(from); del columns[from]
MoveKey(c, from, to) == DelItem(SetItem(c, to, c.vals[from]), from)

RuleEuroCents(c) ==
    IF Truthy(c, "euro") /\ Truthy(c, "cents")
    THEN DelItem(DelItem(SetItem(c, "amount",
                                 ZipEuroCents(c.vals["euro"], c.vals["cents"])),
                         "euro"), "cents")
    ELSE c

RuleTimestamp(c) == IF Truthy(c, "timestamp") THEN MoveKey(c, "timestamp", "date") ELSE c

RuleDateReadable(c) ==
    IF Truthy(c, "date_readable") THEN MoveKey(c, "date_readable", "date") ELSE c

RuleType(c) == IF Truthy(c, "type") THEN MoveKey(c, "type", "transaction") ELSE c

RuleAmounts(c) == IF Truthy(c, "amounts") THEN MoveKey(c, "amounts", "amount") ELSE c

\* lines 95-125 of csv_parser: the store that reaches the merge
Normalize(raw) ==
    CanonDates(RuleAmounts(RuleType(RuleDateReadable(RuleTimestamp(RuleEuroCents(raw))))))

(***************************************************************************)
(* Input files.  A csv file is a header and rows; the cells of a row are   *)
(* taken from sample values, a row variant v choosing one value for every  *)
(* column.                                                                 *)
(***************************************************************************)
ColumnPool ==
    <<"date", "timestamp", "date_readable", "type", "transaction",
      "euro", "cents", "amounts", "amount">>

DateSamples ==
    << <<"J", "a", "n", " ", "0", "5", " ", "2", "0", "2", "0">>,
       <<"0", "5", " ", "J", "a", "n", " ", "2", "0", "2", "0">>,
       <<"0", "5", "-", "0", "1", "-", "2", "0", "2", "0">>,
       <<"2", "0", "2", "0", "/", "0", "1", "/", "0", "5">>,
       <<"F", "e", "b", " ", "3", "0", " ", "2", "0", "2", "0">>,
       <<"6", " ", "f", "e", "b", " ", "2", "0", "2", "1">>,
       <<"D", "e", "c", " ", " ", "7", " ", "2", "0", "2", "1">>,
       <<"2", "9", "-", "2", "-", "2", "0", "2", "0">>,
       <<"3", "1", "-", "1", "2", "-", "2", "0", "2", "0", "1">>,
       <<" ", "5", "-", "1", "-", "2", "0", "2", "0">>,
       <<"0", "5", "-", "0", "1", "-", "0", "9", "9", "9">> >>

EuroSamples == << <<"1", "0">>, <<"5">>, <<"0">> >>

CentsSamples == << <<"5", "0">>, <<"0", "0">> >>

AmountSamples == << <<"2", "0", ".", "0", "0">>, <<"3", ".", "5">>, <<"7">> >>

TypeSamples == << <<"d", "e", "b", "i", "t">>, <<"c", "r", "e", "d", "i", "t">> >>

Pick(samples, n) == samples[(n % Len(samples)) + 1]

\* the cell of column k in a row of variant v
Cell(k, v) ==
    CASE k = "timestamp" -> Pick(DateSamples, v - 1)
      [] k = "date_readable" -> Pick(DateSamples, v + 2)
      [] k = "date" -> Pick(DateSamples, v + 6)
      [] k = "euro" -> Pick(EuroSamples, v - 1)
      [] k = "cents" -> Pick(CentsSamples, v - 1)
      [] k = "amounts" -> Pick(AmountSamples, v - 1)
      [] k = "amount" -> Pick(AmountSamples, v)
      [] k = "type" -> Pick(TypeSamples, v - 1)
      [] OTHER -> Pick(TypeSamples, v)

\* for (k, v) in row.items(): columns[k].append(v)
RECURSIVE AppendRow(_, _, _)
AppendRow(c, header, v) ==
    IF header = <<>> THEN c
    ELSE LET k == Head(header)
             c1 == Touch(c, k)
         IN  AppendRow(SetItem(c1, k, Append(c1.vals[k], Cell(k, v))), Tail(header), v)

\* for row in reader: ...   (columns starts as defaultdict(list))
RECURSIVE ReadRows(_, _, _)
ReadRows(c, header, rows) ==
    IF rows = <<>> THEN c
    ELSE ReadRows(AppendRow(c, header, Head(rows)), header, Tail(rows))

Ingest(header, rows) == ReadRows(EmptyStore, header, rows)

(***************************************************************************)
(* State.                                                                  *)
(*   the run of FileParser.run():                                          *)
(*     file_list   self.file_list, the names given on the command line     *)
(*     file_queue  self.file_queue; a queued name is its place in          *)
(*                 file_list (the same name may be given twice)            *)
(*     heap        the columns dicts the workers have built, by the place  *)
(*                 of the file each was built from                         *)
(*     data_list   self.data_list: 0 is the {} of __init__, p > 0 the      *)
(*                 dict heap[p]                                            *)
(*     pc, filename, idx, target   each worker thread: where it is, the    *)
(*                 file it holds, its place in "for i, j in                *)
(*                 columns.items()", the dict whose list it is extending   *)
(*     main_pc, nthreads   the main thread                                 *)
(*     delivered   how many times each queued name was returned by get()   *)
(*     csv_out     what generate_csv wrote                                 *)
(*   one call of csv_parser's renaming and date pass, rule by rule:        *)
(*     n_pc, n_raw, columns                                                *)
(*   csv_parser's merge applied to one store after another:                *)
(*     m_todo, m_data                                                      *)
(***************************************************************************)
VARIABLES file_list, file_queue, heap, data_list, pc, filename, idx, target,
          main_pc, nthreads, delivered, csv_out,
          n_pc, n_raw, columns,
          m_todo, m_data

run_vars == <<file_list, file_queue, heap, data_list, pc, filename, idx, target,
              main_pc, nthreads, delivered, csv_out>>

norm_vars == <<n_pc, n_raw, columns>>

merge_vars == <<m_todo, m_data>>

vars == <<run_vars, norm_vars, merge_vars>>

NoOutput == [written |-> FALSE, header |-> <<>>, rows |-> <<>>]

\* the parts of the state a specification does not use
RunIdle ==
    /\ file_list = <<>>
    /\ file_queue = <<>>
    /\ heap = <<>>
    /\ data_list = 0
    /\ pc = <<>>
    /\ filename = <<>>
    /\ idx = <<>>
    /\ target = <<>>
    /\ main_pc = "idle"
    /\ nthreads = 0
    /\ delivered = <<>>
    /\ csv_out = NoOutput

NormIdle ==
    /\ n_pc = "idle"
    /\ n_raw = EmptyStore
    /\ columns = EmptyStore

MergeIdle ==
    /\ m_todo = <<>>
    /\ m_data = EmptyStore

(***************************************************************************)
(* SpecNorm: csv_parser on one file, from the read to the date pass.       *)
(***************************************************************************)
\* the sequences over 1..hi of length 0..n
SeqsUpTo(n, hi) == UNION {[1..k -> 1..hi] : k \in 0..n}

\* the headers: the columns of a subset of the pool, in the pool's order
Headers == {SelectSeq(ColumnPool, LAMBDA k : k \in H) : H \in SUBSET {ColumnPool[i] : i \in 1..Len(ColumnPool)}}

RawStores == {Ingest(h, rows) : h \in Headers, rows \in SeqsUpTo(MaxRows, MaxVariants)}

NormInit ==
    /\ n_raw \in RawStores
    /\ columns = n_raw
    /\ n_pc = "euro_cents"
    /\ RunIdle
    /\ MergeIdle

NormStep(at, next, c) ==
    /\ n_pc = at
    /\ columns' = c
    /\ n_pc' = next
    /\ UNCHANGED <<n_raw, run_vars, merge_vars>>

DoEuroCents == NormStep("euro_cents", "timestamp", RuleEuroCents(columns))

DoTimestamp == NormStep("timestamp", "date_readable", RuleTimestamp(columns))

DoDateReadable == NormStep("date_readable", "type", RuleDateReadable(columns))

DoType == NormStep("type", "amounts", RuleType(columns))

DoAmounts == NormStep("amounts", "dates", RuleAmounts(columns))

DoDates == NormStep("dates", "merge", CanonDates(columns))

NormNext ==
    \/ DoEuroCents
    \/ DoTimestamp
    \/ DoDateReadable
    \/ DoType
    \/ DoAmounts
    \/ DoDates

SpecNorm == NormInit /\ [][NormNext]_vars

(***************************************************************************)
(* SpecMerge: the merge of csv_parser (lines 127-132) run by one thread,   *)
(* one store after another.                                                *)
(***************************************************************************)
\* for i, j in columns.items(): if i in self.data_list: self.data_list[i].extend(j)
RECURSIVE ExtendAll(_, _, _)
ExtendAll(data, cols, n) ==
    IF n > Len(cols.keys) THEN data
    ELSE LET i == cols.keys[n]
         IN  ExtendAll(IF Has(data, i)
                       THEN SetItem(data, i, data.vals[i] \o cols.vals[i])
                       ELSE data,
                       cols, n + 1)

\* if not self.data_list: self.data_list = columns / else: ...
Merge(data, cols) == IF ~NonEmpty(data) THEN cols ELSE ExtendAll(data, cols, 1)

\* the csv files of the runs: name, whether open() finds it, header, rows
FileSamples ==
    << [name |-> <<"a", ".", "c", "s", "v">>, readable |-> TRUE,
        header |-> <<"date", "amount">>, rows |-> <<1>>],
       [name |-> <<"b", ".", "c", "s", "v">>, readable |-> TRUE,
        header |-> <<"date_readable", "type">>, rows |-> <<3>>],
       [name |-> <<"c", ".", "c", "s", "v">>, readable |-> TRUE,
        header |-> <<"timestamp", "amounts">>, rows |-> <<1, 2>>],
       [name |-> <<"d", ".", "x", "m", "l">>, readable |-> TRUE,
        header |-> <<>>, rows |-> <<>>],
       [name |-> <<"e", ".", "t", "x", "t">>, readable |-> TRUE,
        header |-> <<>>, rows |-> <<>>],
       [name |-> <<"g", ".", "c", "s", "v">>, readable |-> FALSE,
        header |-> <<>>, rows |-> <<>>] >>

\* filename.endswith(suffix)
EndsWith(name, suffix) ==
    /\ Len(name) >= Len(suffix)
    /\ SubSeq(name, Len(name) - Len(suffix) + 1, Len(name)) = suffix

CsvSuffix == <<".", "c", "s", "v">>

XmlSuffix == <<".", "x", "m", "l">>

JsonSuffix == <<".", "j", "s", "o", "n">>

\* the store csv_parser has built from a file when it reaches the merge
ParsedStore(f) == Normalize(Ingest(f.header, f.rows))

\* the same store for each file of FileSamples, by the file's place
Parsed == [n \in 1..Len(FileSamples) |-> ParsedStore(FileSamples[n])]

\* the stores that are merged: what csv_parser builds from these files
MergeHeaders ==
    { <<"date", "amount">>, <<"date_readable", "type">>,
      <<"timestamp", "euro", "cents">>, <<"amounts">> }

MergeRows == { <<1>>, <<3, 4>> }

MergeStores == {Normalize(Ingest(h, r)) : h \in MergeHeaders, r \in MergeRows}

MergeInit ==
    /\ m_todo \in UNION {[1..k -> MergeStores] : k \in 1..MaxMerges}
    /\ m_data = EmptyStore
    /\ RunIdle
    /\ NormIdle

MergeNext ==
    /\ m_todo # <<>>
    /\ m_data' = Merge(m_data, Head(m_todo))
    /\ m_todo' = Tail(m_todo)
    /\ UNCHANGED <<run_vars, norm_vars>>

SpecMerge == MergeInit /\ [][MergeNext]_vars

(***************************************************************************)
(* Spec: FileParser.run() with its worker threads.  Between two accesses   *)
(* of self.file_queue or self.data_list a thread does only work of its     *)
(* own, so a step of a worker is one such access together with the work    *)
(* that follows it; the threads' steps interleave in every order.          *)
(***************************************************************************)
Workers == 1..Len(pc)

Finished == {"returned", "raised"}

\* the dict self.data_list refers to
DataList == IF data_list = 0 THEN EmptyStore ELSE heap[data_list]

\* the columns dict the worker built from the file it holds
Own(w) == heap[filename[w]]

Put(h, p, c) == [x \in DOMAIN h \cup {p} |-> IF x = p THEN c ELSE h[x]]

\* Reference counting: a dict lives while self.data_list, a worker's columns
\* or a list a worker is extending refers to it.
Collect(h, d, fn, tg) ==
    [x \in {x \in DOMAIN h : \/ x = d
                             \/ \E w \in DOMAIN fn : fn[w] = x
                             \/ \E w \in DOMAIN tg : tg[w] = x} |-> h[x]]

RunInit ==
    /\ file_list \in UNION {[1..k -> 1..Len(FileSamples)] : k \in 1..MaxFiles}
    /\ file_queue = <<>>
    /\ heap = <<>>
    /\ data_list = 0
    /\ pc = <<>>
    /\ filename = <<>>
    /\ idx = <<>>
    /\ target = <<>>
    /\ main_pc = "add_files_queue"
    /\ nthreads = 0
    /\ delivered = [p \in 1..Len(file_list) |-> 0]
    /\ csv_out = NoOutput
    /\ NormIdle
    /\ MergeIdle

\* add_files_queue: for filename in self.file_list: self.file_queue.put(filename)
AddFilesQueue ==
    /\ main_pc = "add_files_queue"
    /\ file_queue' = [p \in 1..Len(file_list) |-> p]
    /\ main_pc' = "qsize"
    /\ UNCHANGED <<file_list, heap, data_list, pc, filename, idx, target,
                   nthreads, delivered, csv_out, norm_vars, merge_vars>>

\* a pool of one worker, whatever the queue holds
QsizeOne(q) == IF Len(q) = 0 THEN 0 ELSE 1

\* self.file_queue.qsize()
Qsize(q) == Len(q)

\* range(self.file_queue.qsize()), evaluated once
RangeQsize ==
    /\ main_pc = "qsize"
    /\ nthreads' = Qsize(file_queue)
    /\ main_pc' = IF Qsize(file_queue) = 0 THEN "generate_csv" ELSE "start"
    /\ UNCHANGED <<file_list, file_queue, heap, data_list, pc, filename, idx,
                   target, delivered, csv_out, norm_vars, merge_vars>>

\* thread_obj = threading.Thread(...); threads.append(thread_obj); thread_obj.start()
StartThread ==
    /\ main_pc = "start"
    /\ Len(pc) < nthreads
    /\ pc' = Append(pc, "get")
    /\ filename' = Append(filename, 0)
    /\ idx' = Append(idx, 0)
    /\ target' = Append(target, 0)
    /\ main_pc' = IF Len(pc) + 1 = nthreads THEN "join" ELSE "start"
    /\ UNCHANGED <<file_list, file_queue, heap, data_list, nthreads,
                   delivered, csv_out, norm_vars, merge_vars>>

\* a join that does not wait for the thread
JoinableAtOnce(w) == TRUE

\* thread.join() returns once the thread has ended, by a return or an exception
Joinable(w) == pc[w] \in Finished

\* for index, thread in enumerate(threads, start=1): thread.join()
JoinThreads ==
    /\ main_pc = "join"
    /\ \A w \in 1..nthreads : Joinable(w)
    /\ main_pc' = "generate_csv"
    /\ UNCHANGED <<file_list, file_queue, heap, data_list, pc, filename, idx,
                   target, nthreads, delivered, csv_out, norm_vars, merge_vars>>

Max(a, b) == IF a >= b THEN a ELSE b

RECURSIVE MaxLen(_, _)
MaxLen(c, n) == IF n > Len(c.keys) THEN 0 ELSE Max(Len(c.vals[c.keys[n]]), MaxLen(c, n + 1))

\* a zip that stops at the end of the shortest column
ZipShortest(c) ==
    LET lens == {Len(c.vals[k]) : k \in DOMAIN c.vals}
        shortest == IF lens = {} THEN 0 ELSE CHOOSE m \in lens : \A l \in lens : m <= l
    IN  [r \in 1..shortest |-> [n \in 1..Len(c.keys) |-> c.vals[c.keys[n]][r]]]

\* itertools.zip_longest(*[self.data_list[k] for k in keys]); csv.writer
\* writes the None of a short column as an empty field
ZipLongest(c) ==
    [r \in 1..MaxLen(c, 1) |->
        [n \in 1..Len(c.keys) |->
            IF r <= Len(c.vals[c.keys[n]]) THEN c.vals[c.keys[n]][r] ELSE <<>>]]

GenerateCsv ==
    /\ main_pc = "generate_csv"
    /\ csv_out' = [written |-> TRUE, header |-> DataList.keys, rows |-> ZipLongest(DataList)]
    /\ main_pc' = "done"
    /\ UNCHANGED <<file_list, file_queue, heap, data_list, pc, filename, idx,
                   target, nthreads, delivered, norm_vars, merge_vars>>

\* a get that returns the first name and leaves it in the queue
QueueGetKeep(q) == [item |-> Head(q), rest |-> q]

\* self.file_queue.get(block=False) on a queue that is not empty
QueueGet(q) == [item |-> Head(q), rest |-> Tail(q)]

\* a get that waits on the empty queue: the worker stays in get()
EmptyBlocks == "get"

\* except queue.Empty: return
OnEmpty == "returned"

\* a csv_parser that goes on to the merge when open() has failed
AfterDispatchMergeAnyway(f) ==
    IF EndsWith(f.name, <<".", "c", "s", "v">>) THEN "merge"
    ELSE IF EndsWith(f.name, <<".", "x", "m", "l">>) \/ EndsWith(f.name, <<".", "j", "s", "o", "n">>)
         THEN "get"
         ELSE "raised"

\* file_parser_factory_method, and for a csv file csv_parser up to the merge
\* (lines 88-125): where the worker is after the dispatch of file f, "raised"
\* when the unknown suffix or open() raised, which ends the thread
AfterDispatch(f) ==
    IF EndsWith(f.name, CsvSuffix)
    THEN (IF f.readable THEN "merge" ELSE "raised")
    ELSE IF EndsWith(f.name, XmlSuffix) \/ EndsWith(f.name, JsonSuffix)
         THEN "get"
         ELSE "raised"

\* process_queued_files: get a name or return on queue.Empty; the work on
\* the file up to the merge touches nothing the other threads see
Get(w) ==
    /\ pc[w] = "get"
    /\ IF file_queue = <<>>
       THEN /\ pc' = [pc EXCEPT ![w] = OnEmpty]
            /\ UNCHANGED <<file_queue, filename, delivered, heap>>
       ELSE LET p == QueueGet(file_queue).item
                f == FileSamples[file_list[p]]
            IN  /\ file_queue' = QueueGet(file_queue).rest
                /\ delivered' = [delivered EXCEPT ![p] = @ + 1]
                /\ pc' = [pc EXCEPT ![w] = AfterDispatch(f)]
                /\ IF AfterDispatch(f) = "merge"
                   THEN /\ filename' = [filename EXCEPT ![w] = p]
                        /\ heap' = Put(heap, p, Parsed[file_list[p]])
                   ELSE UNCHANGED <<filename, heap>>
    /\ UNCHANGED <<file_list, data_list, idx, target, main_pc, nthreads,
                   csv_out, norm_vars, merge_vars>>

\* csv_parser returns to the loop of process_queued_files: its locals
\* (columns, i, j) are gone
Return(w, h, d) ==
    LET fn == [filename EXCEPT ![w] = 0]
        tg == [target EXCEPT ![w] = 0]
    IN  /\ pc' = [pc EXCEPT ![w] = "get"]
        /\ filename' = fn
        /\ target' = tg
        /\ idx' = [idx EXCEPT ![w] = 0]
        /\ heap' = Collect(h, d, fn, tg)

\* the last turn of "for i, j in columns.items()"
LastItem(w) == idx[w] >= Len(Own(w).keys)

\* if not self.data_list:
MergeTest(w) ==
    /\ pc[w] = "merge"
    /\ IF ~NonEmpty(DataList)
       THEN /\ pc' = [pc EXCEPT ![w] = "install"]
            /\ UNCHANGED <<idx, filename, target, heap>>
       ELSE IF Len(Own(w).keys) = 0
            THEN Return(w, heap, data_list)
            ELSE /\ pc' = [pc EXCEPT ![w] = "contains"]
                 /\ idx' = [idx EXCEPT ![w] = 1]
                 /\ UNCHANGED <<filename, target, heap>>
    /\ UNCHANGED <<file_list, file_queue, data_list, main_pc, nthreads,
                   delivered, csv_out, norm_vars, merge_vars>>

\* self.data_list = columns
Install(w) ==
    /\ pc[w] = "install"
    /\ data_list' = filename[w]
    /\ Return(w, heap, filename[w])
    /\ UNCHANGED <<file_list, file_queue, main_pc, nthreads, delivered,
                   csv_out, norm_vars, merge_vars>>

\* if i in self.data_list:
Contains(w) ==
    /\ pc[w] = "contains"
    /\ IF Has(DataList, Own(w).keys[idx[w]])
       THEN /\ pc' = [pc EXCEPT ![w] = "getitem"]
            /\ UNCHANGED <<idx, filename, target, heap>>
       ELSE IF LastItem(w)
            THEN Return(w, heap, data_list)
            ELSE /\ pc' = [pc EXCEPT ![w] = "contains"]
                 /\ idx' = [idx EXCEPT ![w] = @ + 1]
                 /\ UNCHANGED <<filename, target, heap>>
    /\ UNCHANGED <<file_list, file_queue, data_list, main_pc, nthreads,
                   delivered, csv_out, norm_vars, merge_vars>>

\* self.data_list[i]: the list of the dict self.data_list refers to now; that
\* dict is a defaultdict, which creates the key when it is missing
GetItem(w) ==
    /\ pc[w] = "getitem"
    /\ target' = [target EXCEPT ![w] = data_list]
    /\ heap' = [heap EXCEPT ![data_list] = Touch(@, Own(w).keys[idx[w]])]
    /\ pc' = [pc EXCEPT ![w] = "extend"]
    /\ UNCHANGED <<file_list, file_queue, data_list, filename, idx, main_pc,
                   nthreads, delivered, csv_out, norm_vars, merge_vars>>

\* .extend(j)
Extend(w) ==
    /\ pc[w] = "extend"
    /\ LET i == Own(w).keys[idx[w]]
           h == [heap EXCEPT ![target[w]] = SetItem(@, i, @.vals[i] \o Own(w).vals[i])]
           tg == [target EXCEPT ![w] = 0]
       IN  IF LastItem(w)
           THEN Return(w, h, data_list)
           ELSE /\ pc' = [pc EXCEPT ![w] = "contains"]
                /\ idx' = [idx EXCEPT ![w] = @ + 1]
                /\ target' = tg
                /\ heap' = Collect(h, data_list, filename, tg)
                /\ UNCHANGED filename
    /\ UNCHANGED <<file_list, file_queue, data_list, main_pc, nthreads,
                   delivered, csv_out, norm_vars, merge_vars>>

Next ==
    \/ AddFilesQueue
    \/ RangeQsize
    \/ StartThread
    \/ JoinThreads
    \/ GenerateCsv
    \/ \E w \in Workers : Get(w)
    \/ \E w \in Workers : MergeTest(w)
    \/ \E w \in Workers : Install(w)
    \/ \E w \in Workers : Contains(w)
    \/ \E w \in Workers : GetItem(w)
    \/ \E w \in Workers : Extend(w)

Spec == RunInit /\ [][Next]_vars

\* The threads are operating-system threads taking turns on the
\* interpreter lock: while some thread can take a step, a step is taken.
FairSpec == RunInit /\ [][Next]_vars /\ WF_vars(Next)

(***************************************************************************)
(* What the claims speak of.                                               *)
(***************************************************************************)
\* a worker between the test of line 127 and the end of the install or loop
InMerge == {"install", "contains", "getitem", "extend"}

Unsupported(f) ==
    ~(EndsWith(f.name, CsvSuffix) \/ EndsWith(f.name, XmlSuffix) \/ EndsWith(f.name, JsonSuffix))

\* the queued files whose processing reaches the merge
ReachMerge(p) ==
    EndsWith(FileSamples[file_list[p]].name, CsvSuffix) /\ FileSamples[file_list[p]].readable

StoreOf(p) == Parsed[file_list[p]]

Range(seq) == {seq[i] : i \in 1..Len(seq)}

Count(seq, v) == Cardinality({i \in 1..Len(seq) : seq[i] = v})

\* how many times value v stands in column k of the files 1..n that reach the merge
RECURSIVE Contributed(_, _, _)
Contributed(n, k, v) ==
    IF n = 0 THEN 0
    ELSE Contributed(n - 1, k, v)
         + (IF ReachMerge(n) /\ Has(StoreOf(n), k) THEN Count(StoreOf(n).vals[k], v) ELSE 0)

AllWorkersReturned ==
    /\ Len(file_list) > 0
    /\ Len(pc) = Len(file_list)
    /\ \A w \in Workers : pc[w] \in Finished

\* the aggregate of the run in which the files are merged one after another
\* in the order of the queue
RECURSIVE SerialRun(_)
SerialRun(n) ==
    IF n = 0 THEN EmptyStore
    ELSE IF ReachMerge(n) THEN Merge(SerialRun(n - 1), StoreOf(n)) ELSE SerialRun(n - 1)

SameBags(a, b) ==
    /\ DOMAIN a.vals = DOMAIN b.vals
    /\ \A k \in DOMAIN a.vals :
         \A v \in Range(a.vals[k]) \cup Range(b.vals[k]) :
            Count(a.vals[k], v) = Count(b.vals[k], v)

(***************************************************************************)
(* The claims.                                                             *)
(***************************************************************************)
\* C1: at most one worker is inside the merge step (between the test of
\* the shared aggregate and the end of the install or of the extends) in
\* every reachable state.
C1_MergeMutualExclusion ==
    Cardinality({w \in Workers : pc[w] \in InMerge}) <= 1

\* C2: once the run is over, nothing a file brought to the merge is lost:
\* the aggregate is not empty when a file reached the merge, and every
\* column of the aggregate holds each value at least as often as the files
\* that have the column hold it.
C2_NoLostUpdates ==
    main_pc = "done" =>
        /\ (\E p \in 1..Len(file_list) : ReachMerge(p)) => NonEmpty(DataList)
        /\ \A k \in DOMAIN DataList.vals :
             \A p \in 1..Len(file_list) :
                ReachMerge(p) /\ Has(StoreOf(p), k) =>
                    \A v \in Range(StoreOf(p).vals[k]) :
                        Count(DataList.vals[k], v) >= Contributed(Len(file_list), k, v)

\* C3: one merge of a store S into the aggregate A: every key of S absent
\* from A is installed with S's list, every key of S present in A gets S's
\* list appended, every other key of A is unchanged, and the key set is
\* the union.
C3_MergeContract ==
    [][m_todo # <<>> =>
        LET S == Head(m_todo)
            A == m_data
        IN  /\ DOMAIN m_data'.vals = DOMAIN A.vals \cup DOMAIN S.vals
            /\ \A k \in DOMAIN S.vals :
                 /\ Has(m_data', k)
                 /\ m_data'.vals[k] = IF Has(A, k) THEN A.vals[k] \o S.vals[k]
                                                   ELSE S.vals[k]
            /\ \A k \in DOMAIN A.vals \ DOMAIN S.vals :
                 Has(m_data', k) /\ m_data'.vals[k] = A.vals[k]]_vars

\* C4: every queued file reference is returned by get() at most once, and
\* exactly once by the time all the workers have ended.
C4_ExactlyOnceDelivery ==
    /\ \A p \in DOMAIN delivered : delivered[p] <= 1
    /\ AllWorkersReturned => \A p \in DOMAIN delivered : delivered[p] = 1

C4_Witness ==
    /\ AllWorkersReturned
    /\ Len(file_list) = 2
    /\ \A p \in DOMAIN delivered : delivered[p] = 1
    /\ \E w \in Workers : pc[w] = "raised"

\* C5: generate_csv starts only when every spawned worker has ended, by a
\* return or by an exception, and what it wrote is the aggregate as it is
\* at the end of the run: no worker changed it at or after the write.
C5_JoinBarrier ==
    /\ main_pc \in {"generate_csv", "done"} =>
          /\ Len(pc) = Len(file_list)
          /\ \A w \in Workers : pc[w] \in Finished
    /\ main_pc = "done" =>
          /\ csv_out.written
          /\ csv_out.header = DataList.keys
          /\ csv_out.rows = ZipLongest(DataList)

C5_Witness ==
    /\ main_pc = "done"
    /\ nthreads = 2
    /\ \E w \in Workers : pc[w] = "raised"
    /\ \E w \in Workers : pc[w] = "returned"
    /\ Len(csv_out.rows) > 0

\* C6: the aggregate at the end of a run has the key set and, per key, the
\* multiset of values of every other run over the same files; the run that
\* merges the files one after another in queue order is one of them.
C6_InterleavingIndependent ==
    main_pc = "done" => SameBags(DataList, SerialRun(Len(file_list)))

\* C7: when a queued file name has no registered suffix the run does not
\* complete and the unified output is not written.
C7_UnsupportedKindFatal ==
    (\E p \in 1..Len(file_list) : Unsupported(FileSamples[file_list[p]])) =>
        main_pc # "done" /\ ~csv_out.written

\* C8 (as stated): a raw store with a "euro" and a "cents" column is
\* normalized to a store whose "amount" is euro[i] "." cents[i] for every i
\* up to the shorter length, with no "euro" and no "cents" key.
C8_EuroCentsAlways ==
    n_pc = "merge" /\ Has(n_raw, "euro") /\ Has(n_raw, "cents") =>
        /\ Has(columns, "amount")
        /\ ~Has(columns, "euro")
        /\ ~Has(columns, "cents")
        /\ \A i \in 1..Min(Len(n_raw.vals["euro"]), Len(n_raw.vals["cents"])) :
             /\ i <= Len(columns.vals["amount"])
             /\ columns.vals["amount"][i]
                  = n_raw.vals["euro"][i] \o <<".">> \o n_raw.vals["cents"][i]

\* C8 (amended): the same, for the raw stores that have no "amounts"
\* column (the amounts rule, which runs later, overwrites "amount").
C8_EuroCents ==
    n_pc = "merge" /\ Has(n_raw, "euro") /\ Has(n_raw, "cents") /\ ~Has(n_raw, "amounts") =>
        /\ Has(columns, "amount")
        /\ ~Has(columns, "euro")
        /\ ~Has(columns, "cents")
        /\ \A i \in 1..Min(Len(n_raw.vals["euro"]), Len(n_raw.vals["cents"])) :
             /\ i <= Len(columns.vals["amount"])
             /\ columns.vals["amount"][i]
                  = n_raw.vals["euro"][i] \o <<".">> \o n_raw.vals["cents"][i]

C8_Witness ==
    /\ n_pc = "merge"
    /\ Has(n_raw, "euro") /\ Has(n_raw, "cents") /\ Has(n_raw, "amount")
    /\ ~Has(n_raw, "amounts")
    /\ Len(n_raw.vals["euro"]) = 2
    /\ n_raw.vals["euro"][1] # n_raw.vals["euro"][2]
    /\ Len(columns.vals["amount"]) = 2

\* C9: a raw store with a "timestamp" and a "date_readable" column is
\* normalized to a store whose "date" is the canonical form of the
\* timestamp values.
C9_TimestampWins ==
    n_pc = "merge" /\ Has(n_raw, "timestamp") /\ Has(n_raw, "date_readable") =>
        columns.vals["date"] = DateList(n_raw.vals["timestamp"])

\* the formats, in list order, that parse a value
Parses(row, k) == Strptime(row, DateFormats[k]).ok

FirstFormat(row) ==
    CHOOSE k \in 1..Len(DateFormats) : Parses(row, k) /\ \A j \in 1..(k - 1) : ~Parses(row, j)

\* one canonical value per parseable value, under its first format, in order
RECURSIVE Canonical(_)
Canonical(rows) ==
    IF rows = <<>> THEN <<>>
    ELSE (IF \E k \in 1..Len(DateFormats) : Parses(Head(rows), k)
          THEN <<Strftime(Strptime(Head(rows), DateFormats[FirstFormat(Head(rows))]))>>
          ELSE <<>>)
         \o Canonical(Tail(rows))

\* C10: the date pass turns the "date" column into the sequence that has,
\* in the input order, one canonical value for every value that some
\* format parses (its conversion under the first such format) and nothing
\* for a value no format parses; its length is the number of parseable
\* values.
C10_DateCanonicalization ==
    [][n_pc = "dates" =>
        LET in == Touch(columns, "date").vals["date"]
        IN  /\ columns'.vals["date"] = Canonical(in)
            /\ Len(columns'.vals["date"])
                 = Cardinality({i \in 1..Len(in) : \E k \in 1..Len(DateFormats) : Parses(in[i], k)})]_vars

C10_Witness ==
    /\ n_pc = "merge"
    /\ Has(n_raw, "date") /\ ~Has(n_raw, "timestamp") /\ ~Has(n_raw, "date_readable")
    /\ Len(n_raw.vals["date"]) = 2
    /\ Len(columns.vals["date"]) = 1

\* C11: the output has one header row that lists every key of the final
\* aggregate exactly once; the number of data rows is the length of the
\* longest column; data row i holds, for each key in header order, the
\* i-th value of the key's column, or an empty field when the column has
\* fewer than i values.
C11_OutputShape ==
    main_pc = "done" =>
        LET h == csv_out.header
            rows == csv_out.rows
            d == DataList
        IN  /\ Range(h) = DOMAIN d.vals
            /\ \A a, b \in 1..Len(h) : h[a] = h[b] => a = b
            /\ \A k \in DOMAIN d.vals : Len(d.vals[k]) <= Len(rows)
            /\ (Len(rows) > 0 => \E k \in DOMAIN d.vals : Len(d.vals[k]) = Len(rows))
            /\ \A i \in 1..Len(rows) :
                 /\ Len(rows[i]) = Len(h)
                 /\ \A n \in 1..Len(h) :
                      rows[i][n] = IF i <= Len(d.vals[h[n]]) THEN d.vals[h[n]][i] ELSE <<>>

C11_Witness ==
    /\ main_pc = "done"
    /\ Len(csv_out.header) = 2
    /\ Len(csv_out.rows) = 2
    /\ csv_out.rows[1][2] # <<>>
    /\ csv_out.rows[2][2] = <<>>

\* row r of the store csv_parser builds from the p-th file, in the order h of keys
NormRow(p, r, h) == [n \in 1..Len(h) |-> StoreOf(p).vals[h[n]][r]]

\* the files all reach the merge with the same keys, and every column of
\* every store has one value per row of its file (no date was dropped)
SameShapeInputs ==
    /\ \A p \in 1..Len(file_list) :
         /\ ReachMerge(p)
         /\ DOMAIN StoreOf(p).vals = DOMAIN StoreOf(1).vals
         /\ \A k \in DOMAIN StoreOf(p).vals :
              Len(StoreOf(p).vals[k]) = Len(FileSamples[file_list[p]].rows)

\* C12: for files whose normalized stores have the same key set and no
\* dropped date, the output of every run has exactly one data row per
\* input row, and every output row is the normalized form of one input
\* row: each row value stands in the output as often as it stands in the
\* files.
C12_RowIntegrity ==
    main_pc = "done" /\ SameShapeInputs =>
        LET h == csv_out.header
            src == {pr \in (1..Len(file_list)) \X (1..MaxRows) :
                        pr[2] <= Len(FileSamples[file_list[pr[1]]].rows)}
        IN  /\ Range(h) = DOMAIN StoreOf(1).vals
            /\ Len(csv_out.rows) = Cardinality(src)
            /\ \A i \in 1..Len(csv_out.rows) :
                 Count(csv_out.rows, csv_out.rows[i])
                   = Cardinality({pr \in src : NormRow(pr[1], pr[2], h) = csv_out.rows[i]})

\* every file given has a registered suffix and can be opened
SupportedInputs ==
    \A p \in 1..Len(file_list) :
        /\ ~Unsupported(FileSamples[file_list[p]])
        /\ FileSamples[file_list[p]].readable

RunComplete ==
    /\ main_pc = "done"
    /\ csv_out.written
    /\ Len(pc) = Len(file_list)
    /\ \A w \in Workers : pc[w] = "returned"

\* C13: under fair scheduling a run over supported files comes to the
\* state where every worker has returned, the join has completed and the
\* output is written, and stays there; the output is written once: no step
\* changes it after it was written.
C13_RunToCompletion ==
    /\ (main_pc = "add_files_queue" /\ SupportedInputs) ~> [](RunComplete)
    /\ [][csv_out' # csv_out => ~csv_out.written /\ csv_out'.written]_vars

C13_Witness ==
    /\ RunComplete
    /\ SupportedInputs
    /\ nthreads = 2
    /\ Len(csv_out.rows) = 3

\* the processing of the file raises: no registered suffix, or open() fails
Fails(f) == Unsupported(f) \/ (EndsWith(f.name, CsvSuffix) /\ ~f.readable)

\* C14: the worker that dequeues a file whose processing raises ends by
\* that step, holding no store and with the aggregate and every store
\* unchanged; a worker that has ended so takes no further step.
C14_FailedFileNoMerge ==
    [][\A w \in Workers :
         /\ (/\ pc[w] = "get"
             /\ pc'[w] # "get"
             /\ file_queue # <<>>
             /\ Fails(FileSamples[file_list[Head(file_queue)]]))
            => /\ pc'[w] = "raised"
               /\ filename'[w] = 0
               /\ target'[w] = 0
               /\ data_list' = data_list
               /\ heap' = heap
         /\ pc[w] = "raised" => pc'[w] = "raised"]_vars

C14_Witness ==
    /\ main_pc = "done"
    /\ Len(file_list) = 2
    /\ ~FileSamples[file_list[2]].readable
    /\ pc[1] = "raised"
    /\ pc[2] = "returned"
    /\ csv_out.rows = ZipLongest(Parsed[file_list[1]])
    /\ Len(csv_out.rows) = 2

\* C15: the number of workers is set once, to the number of names
\* enqueued, while no worker exists, and exactly that many are started; a
\* worker takes a name from the queue only while it holds none, and lets
\* go of the file it holds only at the end of that file's merge (after
\* the install, or after the last key of its store).
C15_PoolShape ==
    [][/\ nthreads' # nthreads =>
            /\ pc = <<>>
            /\ Len(file_queue) = Len(file_list)
            /\ nthreads' = Len(file_list)
       /\ Len(pc') # Len(pc) =>
            /\ nthreads' = nthreads
            /\ Len(pc') <= nthreads
       /\ main_pc' \in {"join", "generate_csv", "done"} => Len(pc') = Len(file_list)
       /\ \A w \in Workers :
            /\ filename'[w] # filename[w] /\ filename'[w] # 0 =>
                 /\ pc[w] = "get"
                 /\ filename[w] = 0
                 /\ filename'[w] = Head(file_queue)
                 /\ file_queue' = Tail(file_queue)
                 /\ \A v \in Workers \ {w} : filename[v] # filename'[w]
            /\ filename[w] # 0 /\ filename'[w] = 0 =>
                 /\ pc'[w] = "get"
                 /\ \/ pc[w] = "install"
                    \/ pc[w] \in {"merge", "contains", "extend"} /\ LastItem(w)
            /\ pc[w] \in InMerge \cup {"merge"} <=> filename[w] # 0]_vars

C15_Witness ==
    /\ Len(pc) = 2
    /\ nthreads = 2
    /\ pc[2] = "get"
    /\ delivered = <<1, 1>>
    /\ filename[1] = 2
    /\ pc[1] = "extend"

AliasKeys == {"timestamp", "date_readable", "type", "amounts"}

AliasFree(c) ==
    /\ DOMAIN c.vals \cap AliasKeys = {}
    /\ ~(Has(c, "euro") /\ Has(c, "cents"))

C17_NormalizeIdempotent ==
    n_pc = "merge" => Normalize(columns) = columns

\* C18: a raw store with a "timestamp" and a "date" column is normalized
\* to a store whose "date" is the canonical form of the timestamp values;
\* a raw store with an "amounts" column and an "amount" column (its own,
\* or the one made of "euro" and "cents") is normalized to a store whose
\* "amount" is the "amounts" values.
C18_RulesOverwriteInOrder ==
    n_pc = "merge" =>
        /\ Has(n_raw, "timestamp") /\ Has(n_raw, "date") =>
              columns.vals["date"] = DateList(n_raw.vals["timestamp"])
        /\ Has(n_raw, "amounts")
              /\ (Has(n_raw, "amount") \/ (Has(n_raw, "euro") /\ Has(n_raw, "cents"))) =>
              /\ Has(columns, "amount")
              /\ columns.vals["amount"] = n_raw.vals["amounts"]

\* every thread of the pool is started and has ended
PoolEnded ==
    /\ main_pc \in {"join", "generate_csv", "done"}
    /\ Len(pc) = nthreads
    /\ \A w \in Workers : pc[w] \in Finished

\* C19: when the last worker has ended, by a return or by an exception,
\* the queue is empty and every enqueued name has been taken from it by
\* some worker.
C19_QueueDrained ==
    PoolEnded =>
        /\ file_queue = <<>>
        /\ \A p \in 1..Len(file_list) : delivered[p] >= 1

C19_Witness ==
    /\ PoolEnded
    /\ pc = <<"raised", "raised">>
    /\ file_queue = <<>>
    /\ delivered = <<1, 1>>

DateSources == {"date", "timestamp", "date_readable"}

\* C20: the store csv_parser hands to the merge has the key "date", with
\* an empty sequence when the file had no date, timestamp or date_readable
\* column or when none of its values parsed; every store a worker holds
\* at the merge has the key, and so has the aggregate once a store is
\* installed.
C20_DateKeyPresent ==
    /\ n_pc = "merge" =>
          /\ Has(columns, "date")
          /\ DOMAIN n_raw.vals \cap DateSources = {} => columns.vals["date"] = <<>>
          /\ (\A k \in DOMAIN n_raw.vals \cap DateSources :
                 DateList(n_raw.vals[k]) = <<>>) => columns.vals["date"] = <<>>
    /\ \A p \in DOMAIN heap : Has(heap[p], "date")
    /\ data_list # 0 => Has(DataList, "date")
    /\ NonEmpty(m_data) => Has(m_data, "date")

C20_Witness ==
    /\ n_pc = "merge"
    /\ DOMAIN n_raw.vals = {"type", "amount"}
    /\ Len(n_raw.vals["type"]) = 2
    /\ columns.keys = <<"amount", "transaction", "date">>
    /\ columns.vals["date"] = <<>>

====
